---- MODULE Spec2Model ----
(***************************************************************************)
(* The gallery application of src/App.tsx: discovery (loadImages) with its  *)
(* size lookups (getFileSize), selection (toggleSelect, selectAll), the    *)
(* filter, the tag workflow (handleAnalyze, analyzeImage) and the          *)
(* sequential bulk export (handleBulkDownload).  React state is the        *)
(* committed state between two synchronous blocks: a handler or the        *)
(* continuation of an await runs to completion, so one action is one       *)
(* synchronous block of a handler.                                         *)
(***************************************************************************)
EXTENDS Integers, Sequences, FiniteSets, TLC

\* ---------------------------------------------------------------- bounds
\* Math.random().toString(36).substring(7) draws an id from a pool.
NumIds == 3
\* loadImages calls whose directory fetch is outstanding at once.
MaxPending == 1
\* calls of analyzeImage that await the network at once.
MaxAnalyses == 1
\* collections whose size lookups are outstanding at once.
MaxProbeGens == 2
\* anchors of a directory document.
MaxLinks == 3
\* calls of analyzeImage that await the network at once, where analyses run
\* side by side.
MaxConcurrent == 2

Ids == 1 .. NumIds
\* null of processingId
None == 0

\* ------------------------------------------------------- directory listing
\* The links of the directory document that survive the extension filter and
\* the de-duplication, in document order.  DIRECTORY_URL is content-addressed,
\* so every successful fetch parses the same document.
Listing ==
  << [url |-> "/ipfs/dir/a.png", filename |-> "a.png"],
     [url |-> "/ipfs/dir/b.jpg", filename |-> "b.jpg"] >>

VARIABLES
  images,             \* useState<IPFSImage[]>
  status,             \* useState<AppState>
  error,              \* useState<string | null>
  selectedIds,        \* useState<Set<string>>
  isBulkDownloading,  \* useState(false)
  downloadProgress,   \* useState({current, total})
  processingId,       \* useState<string | null>
  pendingLoads,       \* loadImages calls awaiting fetchIPFSImages()
  job,                \* handleBulkDownload: position and locals
  inFlight,           \* snapshot indices whose retrieval is outstanding
  last,               \* the block that ran last and what it showed the user
  callSelection,      \* history: selectedIds when the active export was invoked
  callAssets,         \* history: selected assets, collection order, at call
  retrieved,          \* history: assets whose retrieval the active export started
  reports,            \* history: progress values committed by the active export
  searchQuery,        \* useState('')
  showApiKeyModal,    \* useState(false)
  analyses,           \* analyzeImage calls awaiting the network
  creds,              \* localStorage and the build's process.env
  probes,             \* getFileSize calls of loadImages and their outcome
  links,              \* the hrefs of the anchors of a directory document
  parsed              \* what fetchIPFSImages made of links

tagVars == << showApiKeyModal, analyses, creds >>
parseVars == << links, parsed >>

vars == << images, status, error, selectedIds, isBulkDownloading,
           downloadProgress, processingId, pendingLoads, job, inFlight,
           last, callSelection, callAssets, retrieved, reports, searchQuery,
           tagVars, probes, parseVars >>

galleryVars == << images, status, error, pendingLoads, searchQuery, tagVars,
                  probes, parseVars >>
exportVars == << isBulkDownloading, downloadProgress, processingId, job,
                 inFlight, callSelection, callAssets, retrieved, reports >>

\* ------------------------------------------------------------- helpers
Progress(c, t) == [current |-> c, total |-> t]

\* an optional field is << >> when undefined and << v >> when set to v
NoImage == [id |-> None, url |-> "", filename |-> "", dimensions |-> "",
            aiTags |-> << >>, analyzing |-> FALSE, fileSize |-> << >>,
            sizeBytes |-> << >>]

\* the block named op ran with argument arg; alert is what alert(...) showed,
\* archive what link.click() offered, failed the asset whose retrieval failed
Event(op, arg) ==
  [op |-> op, arg |-> arg, alert |-> << >>, archive |-> << >>,
   failed |-> NoImage]

IdleJob == [pc |-> "idle", selectedImages |-> << >>, img |-> NoImage,
            count |-> 0, total |-> 0, zip |-> << >>]

ImageIds(imgs) == { imgs[i].id : i \in 1 .. Len(imgs) }

\* images.filter(img => selectedIds.has(img.id))
RECURSIVE SelectedImages(_, _)
SelectedImages(imgs, sel) ==
  IF imgs = << >> THEN << >>
  ELSE LET rest == SelectedImages(Tail(imgs), sel)
       IN IF Head(imgs).id \in sel THEN << Head(imgs) >> \o rest ELSE rest

\* fetchIPFSImages(): one asset per surviving link, ids[i] its generated id
FetchedFrom(listing, ids) ==
  [ i \in 1 .. Len(listing) |->
      [NoImage EXCEPT !.id = ids[i], !.url = listing[i].url,
                      !.filename = listing[i].filename] ]

Fetched(ids) == FetchedFrom(Listing, ids)

\* the surviving links of a directory with a sub-directory: the targets
\* /ipfs/dir/a.png and /ipfs/dir/d/a.png differ and end in the same segment
NestedListing ==
  << [url |-> "/ipfs/dir/a.png", filename |-> "a.png"],
     [url |-> "/ipfs/dir/d/a.png", filename |-> "a.png"] >>

\* the bytes behind a url
BlobOf(url) == url

\* JSZip.file(name, data): an entry of that name is replaced, else appended
RECURSIVE ZipFile(_, _, _)
ZipFile(zip, name, data) ==
  IF zip = << >> THEN << [name |-> name, data |-> data] >>
  ELSE IF Head(zip).name = name
       THEN << [name |-> name, data |-> data] >> \o Tail(zip)
       ELSE << Head(zip) >> \o ZipFile(Tail(zip), name, data)

\* ------------------------------------------------------------------ text
\* A text that the code searches or cuts is the sequence of its characters.
Upper == << "A", "B", "C", "D", "E", "F", "G", "H", "I", "J", "K", "L", "M",
            "N", "O", "P", "Q", "R", "S", "T", "U", "V", "W", "X", "Y", "Z" >>
Lower == << "a", "b", "c", "d", "e", "f", "g", "h", "i", "j", "k", "l", "m",
            "n", "o", "p", "q", "r", "s", "t", "u", "v", "w", "x", "y", "z" >>

\* String.prototype.toLowerCase
toLowerCase(s) ==
  [ i \in 1 .. Len(s) |->
      IF \E k \in 1 .. Len(Upper) : Upper[k] = s[i]
      THEN Lower[CHOOSE k \in 1 .. Len(Upper) : Upper[k] = s[i]]
      ELSE s[i] ]

\* String.prototype.includes
includes(s, t) ==
  \E k \in 0 .. Len(s) - Len(t) : SubSeq(s, k + 1, k + Len(t)) = t

\* the characters of the file names of Listing
Chars(name) ==
  CASE name = "a.png" -> << "a", ".", "p", "n", "g" >>
    [] name = "b.jpg" -> << "b", ".", "j", "p", "g" >>
    [] OTHER -> << >>

\* ----------------------------------------------------------- credentials
\* geminiService.ts line 8: the stored user key, process.env.API_KEY and
\* process.env.GEMINI_API_KEY; "" is a key that is not set
Credentials ==
  [user : {"", "userKey"}, env : {"", "envKey"},
   fallback : {"", "fallbackKey"}]

\* a build whose environment provides API_KEY, and no stored user key
BuildCreds == [user |-> "", env |-> "envKey", fallback |-> ""]

CoreInit ==
  /\ images = << >>
  /\ status = "IDLE"
  /\ error = "null"
  /\ selectedIds = {}
  /\ isBulkDownloading = FALSE
  /\ downloadProgress = Progress(0, 0)
  /\ processingId = None
  /\ pendingLoads = 0
  /\ job = IdleJob
  /\ inFlight = {}
  /\ last = Event("mount", None)
  /\ callSelection = {}
  /\ callAssets = << >>
  /\ retrieved = << >>
  /\ reports = << >>
  /\ searchQuery = << >>
  /\ showApiKeyModal = FALSE
  /\ analyses = {}
  /\ probes = {}
  /\ parsed = << >>

Init ==
  /\ CoreInit
  /\ creds = BuildCreds
  /\ links = << >>

\* --------------------------------------------------------------- discovery
\* loadImages up to its await: the mount effect, or the refresh button, which
\* is disabled while an export is active.
loadImages ==
  /\ status = "IDLE" \/ ~isBulkDownloading
  /\ pendingLoads < MaxPending
  /\ status' = "FETCHING"
  /\ error' = "null"
  /\ pendingLoads' = pendingLoads + 1
  /\ last' = Event("loadImages", None)
  /\ UNCHANGED << images, selectedIds >>
  /\ UNCHANGED << searchQuery, tagVars, probes, parseVars >>
  /\ UNCHANGED exportVars

\* fetchIPFSImages resolved: the collection is replaced
loadImagesFetched ==
  /\ pendingLoads > 0
  /\ \E ids \in [1 .. Len(Listing) -> Ids] :
       images' = Fetched(ids)
  /\ status' = "READY"
  /\ pendingLoads' = pendingLoads - 1
  /\ last' = Event("loadImagesFetched", None)
  /\ UNCHANGED << error, selectedIds >>
  /\ UNCHANGED << searchQuery, tagVars, probes, parseVars >>
  /\ UNCHANGED exportVars

\* what fetchIPFSImages throws: the Error of types.ts line 35 for a response
\* that is not ok, the TypeError of a fetch that was rejected, and an error
\* without a message
DirectoryErrors ==
  {"Failed to fetch directory: Not Found", "Failed to fetch", ""}

\* App.tsx line 61: err.message || 'Unknown error occurred ...'
ErrorTextRaw(message) == message
ErrorText(message) ==
  IF message = "" THEN "Unknown error occurred while fetching IPFS directory"
  ELSE message

\* fetchIPFSImages threw an error of that message
loadImagesFailed(message) ==
  /\ pendingLoads > 0
  /\ error' = ErrorText(message)
  /\ status' = "ERROR"
  /\ pendingLoads' = pendingLoads - 1
  /\ last' = Event("loadImagesFailed", None)
  /\ UNCHANGED << images, selectedIds >>
  /\ UNCHANGED << searchQuery, tagVars, probes, parseVars >>
  /\ UNCHANGED exportVars

\* handleImageLoad: the decode event of an image of the grid, which is
\* rendered when the status is READY, writes the dimensions of the entries of
\* that id
handleImageLoad(id) ==
  /\ status = "READY"
  /\ images' = [ i \in 1 .. Len(images) |->
                   IF images[i].id = id
                   THEN [images[i] EXCEPT !.dimensions = "w x h"]
                   ELSE images[i] ]
  /\ last' = Event("handleImageLoad", id)
  /\ UNCHANGED << status, error, pendingLoads, selectedIds >>
  /\ UNCHANGED << searchQuery, tagVars, probes, parseVars >>
  /\ UNCHANGED exportVars

\* --------------------------------------------------------------- selection
\* toggleSelect, line 91: if (isBulkDownloading) return
ToggleNeverRejected == FALSE
ToggleRejected == isBulkDownloading

toggleSelect(id) ==
  /\ last' = Event("toggleSelect", id)
  /\ selectedIds' =
       IF ToggleRejected THEN selectedIds
       ELSE IF id \in selectedIds THEN selectedIds \ {id}
            ELSE selectedIds \cup {id}
  /\ UNCHANGED galleryVars
  /\ UNCHANGED exportVars

selectAll ==
  /\ last' = Event("selectAll", None)
  /\ selectedIds' =
       IF isBulkDownloading THEN selectedIds
       ELSE IF Cardinality(selectedIds) = Len(images) THEN {}
            ELSE ImageIds(images)
  /\ UNCHANGED galleryVars
  /\ UNCHANGED exportVars

\* ------------------------------------------------------------------ export
\* handleBulkDownload, line 110: the early return
BulkDownloadRejectedEmptyOnly == Cardinality(selectedIds) = 0
BulkDownloadRejected == Cardinality(selectedIds) = 0 \/ isBulkDownloading

\* line 119: for (const img of selectedImages), the snapshot of line 116
LoopItemsLive(j) == SelectedImages(images, selectedIds)
LoopItems(j) == j.selectedImages

\* lines 119-134: an iteration retrieves one item and awaits its outcome, so
\* the last item started by the iteration at count is count + 1
LastStartedAll(count, n) == n
LastStarted(count, n) == count + 1

\* line 120: setProcessingId(img.id)
MarkerKept(img) == processingId
MarkerOf(img) == img.id

\* line 129: new Error(`Failed to download ${img.filename}`)
DownloadError(img) == [text |-> "Failed to download", name |-> img.filename]
\* line 128: fetch rejects with its own TypeError; line 156 shows err.message
TransportError(img) == [text |-> "Failed to fetch", name |-> "null"]
\* line 130: response.blob() rejects with its own error
BodyError(img) == [text |-> "Failed to read body", name |-> "null"]
\* line 138: generateAsync rejects
PackError == [text |-> "Failed to generate archive", name |-> "null"]

\* lines 154-156: the catch block leaves the selection alone
SelectionAfterFailureCleared == {}
SelectionAfterFailure == selectedIds

\* line 153: setSelectedIds(new Set())
SelectionAfterSuccessKept == selectedIds
SelectionAfterSuccess == {}

\* line 160: setDownloadProgress({ current: 0, total: 0 })
ProgressAfterExitKept == downloadProgress
ProgressAfterExit == Progress(0, 0)

\* lines 119-128 (an iteration up to its fetch) or 137-138 (after the loop):
\* j is the job at the loop head, prog the progress set so far in this block
Iterate(j, prog, retr, reps) ==
  LET items == LoopItems(j)
  IN IF j.count < Len(items)
     THEN LET upto == LastStarted(j.count, Len(items))
              img == items[j.count + 1]
          IN /\ processingId' = MarkerOf(img)
             /\ downloadProgress' = Progress(j.count + 1, j.total)
             /\ inFlight' = inFlight \cup (j.count + 1 .. upto)
             /\ retrieved' = retr \o SubSeq(items, j.count + 1, upto)
             /\ reports' = Append(reps, Progress(j.count + 1, j.total))
             /\ job' = [j EXCEPT !.pc = "fetch", !.img = img]
     ELSE /\ processingId' = None
          /\ downloadProgress' = prog
          /\ inFlight' = inFlight
          /\ retrieved' = retr
          /\ reports' = IF prog # downloadProgress THEN Append(reps, prog)
                        ELSE reps
          /\ job' = [j EXCEPT !.pc = "zip"]

\* lines 157-161: finally
Finally ==
  /\ isBulkDownloading' = FALSE
  /\ processingId' = None
  /\ downloadProgress' = ProgressAfterExit
  /\ job' = IdleJob
  /\ callSelection' = {}
  /\ callAssets' = << >>
  /\ retrieved' = << >>
  /\ reports' = << >>

\* lines 154-161: catch, then finally
Fail(op, msg, failed) ==
  /\ last' = [Event(op, None) EXCEPT !.alert = << msg >>, !.failed = failed]
  /\ selectedIds' = SelectionAfterFailure
  /\ Finally

\* lines 109-128: the click handler up to its first await
handleBulkDownload ==
  /\ last' = Event("handleBulkDownload", None)
  /\ IF BulkDownloadRejected
     THEN UNCHANGED << selectedIds, exportVars >>
     ELSE /\ isBulkDownloading' = TRUE
          /\ callSelection' = selectedIds
          /\ callAssets' = SelectedImages(images, selectedIds)
          /\ Iterate([IdleJob EXCEPT
                        !.selectedImages = SelectedImages(images, selectedIds),
                        !.total = Cardinality(selectedIds)],
                     Progress(0, Cardinality(selectedIds)), << >>, << >>)
          /\ UNCHANGED selectedIds
  /\ UNCHANGED galleryVars

\* line 128 resolved with a success response: line 130 awaits the body
fetchOk ==
  /\ job.pc = "fetch"
  /\ last' = Event("fetchOk", None)
  /\ job' = [job EXCEPT !.pc = "blob"]
  /\ UNCHANGED << selectedIds, isBulkDownloading, downloadProgress,
                  processingId, inFlight, callSelection, callAssets,
                  retrieved, reports >>
  /\ UNCHANGED galleryVars

\* line 128 resolved with a non-success response: line 129 throws
fetchNotOk ==
  /\ job.pc = "fetch"
  /\ inFlight' = inFlight \ {job.count + 1}
  /\ Fail("fetchNotOk", DownloadError(job.img), job.img)
  /\ UNCHANGED galleryVars

\* line 128 rejected: a transport error
fetchRejected ==
  /\ job.pc = "fetch"
  /\ inFlight' = inFlight \ {job.count + 1}
  /\ Fail("fetchRejected", TransportError(job.img), job.img)
  /\ UNCHANGED galleryVars

\* line 130 resolved: line 131 adds the entry, line 133 starts the delay
blobOk ==
  /\ job.pc = "blob"
  /\ last' = Event("blobOk", None)
  /\ inFlight' = inFlight \ {job.count + 1}
  /\ job' = [job EXCEPT
               !.zip = ZipFile(job.zip, job.img.filename, BlobOf(job.img.url)),
               !.pc = "delay"]
  /\ UNCHANGED << selectedIds, isBulkDownloading, downloadProgress,
                  processingId, callSelection, callAssets, retrieved,
                  reports >>
  /\ UNCHANGED galleryVars

\* line 130 rejected
blobRejected ==
  /\ job.pc = "blob"
  /\ inFlight' = inFlight \ {job.count + 1}
  /\ Fail("blobRejected", BodyError(job.img), job.img)
  /\ UNCHANGED galleryVars

\* line 133 elapsed: count++, then the next iteration or lines 137-138
delayElapsed ==
  /\ job.pc = "delay"
  /\ last' = Event("delayElapsed", None)
  /\ Iterate([job EXCEPT !.count = job.count + 1], downloadProgress,
             retrieved, reports)
  /\ UNCHANGED << selectedIds, isBulkDownloading, callSelection,
                  callAssets >>
  /\ UNCHANGED galleryVars

\* line 138 resolved: lines 139-153, then finally
zipOk ==
  /\ job.pc = "zip"
  /\ last' = [Event("zipOk", None) EXCEPT !.archive = << job.zip >>]
  /\ selectedIds' = SelectionAfterSuccess
  /\ Finally
  /\ UNCHANGED inFlight
  /\ UNCHANGED galleryVars

\* line 138 rejected
zipRejected ==
  /\ job.pc = "zip"
  /\ Fail("zipRejected", PackError, NoImage)
  /\ UNCHANGED inFlight
  /\ UNCHANGED galleryVars

\* the continuations of the export's awaits
JobStep ==
  \/ fetchOk
  \/ fetchNotOk
  \/ fetchRejected
  \/ blobOk
  \/ blobRejected
  \/ delayElapsed
  \/ zipOk
  \/ zipRejected

Next ==
  \/ loadImages
  \/ loadImagesFetched
  \/ \E message \in DirectoryErrors : loadImagesFailed(message)
  \/ \E id \in ImageIds(images) : toggleSelect(id)
  \/ selectAll
  \/ handleBulkDownload
  \/ JobStep

Spec == Init /\ [][Next]_vars

\* every outstanding await of the export eventually resolves
FairSpec == Spec /\ WF_vars(JobStep)

\* the application with the write-backs of the decode events as well
NextWriteBack ==
  \/ Next
  \/ \E id \in ImageIds(images) : handleImageLoad(id)

WriteBackSpec == Init /\ [][NextWriteBack]_vars

\* the gallery after the discovery of a directory, flat or with a
\* sub-directory
ArchiveInit ==
  /\ \E listing \in {Listing, NestedListing} :
       \E ids \in [1 .. Len(listing) -> Ids] :
         images = FetchedFrom(listing, ids)
  /\ status = "READY"
  /\ error = "null"
  /\ selectedIds = {}
  /\ isBulkDownloading = FALSE
  /\ downloadProgress = Progress(0, 0)
  /\ processingId = None
  /\ pendingLoads = 0
  /\ job = IdleJob
  /\ inFlight = {}
  /\ last = Event("loadImagesFetched", None)
  /\ callSelection = {}
  /\ callAssets = << >>
  /\ retrieved = << >>
  /\ reports = << >>
  /\ searchQuery = << >>
  /\ showApiKeyModal = FALSE
  /\ analyses = {}
  /\ creds = BuildCreds
  /\ probes = {}
  /\ links = << >>
  /\ parsed = << >>

\* selection and export on that gallery
NextArchive ==
  \/ \E id \in ImageIds(images) : toggleSelect(id)
  \/ selectAll
  \/ handleBulkDownload
  \/ JobStep

ArchiveSpec == ArchiveInit /\ [][NextArchive]_vars

\* ----------------------------------------------------------- tag workflow
\* geminiService.ts line 11: the message of the credential failure
AUTH_ERROR ==
  << "A", "U", "T", "H", "_", "E", "R", "R", "O", "R" >>
\* geminiService.ts lines 62-67: the substrings of an authentication failure
AuthPatterns ==
  { << "A", "P", "I", "_", "K", "E", "Y", "_", "I", "N", "V", "A", "L", "I",
    "D" >>,
    << "i", "n", "v", "a", "l", "i", "d", " ", "A", "P", "I", " ", "k", "e",
    "y" >>,
    << "A", "P", "I", " ", "k", "e", "y", " ", "m", "u", "s", "t", " ", "b",
    "e", " ", "s", "e", "t" >>,
    << "4", "0", "1" >>,
    << "4", "0", "3" >>,
    << "R", "e", "q", "u", "e", "s", "t", "e", "d", " ", "e", "n", "t", "i",
    "t", "y", " ", "w", "a", "s", " ", "n", "o", "t", " ", "f", "o", "u", "n",
    "d" >> }
\* geminiService.ts line 71
AnalysisFailed ==
  << << "A", "n", "a", "l", "y", "s", "i", "s", " ", "F", "a", "i", "l", "e",
     "d" >> >>
\* messages of errors of fetch, response.blob and generateContent: the
\* credential failure itself, one message around each authentication
\* substring, and messages with none of them
Messages ==
  { AUTH_ERROR }
  \cup { << "[" >> \o p \o << "]" >> : p \in AuthPatterns }
  \cup { << "F", "a", "i", "l", "e", "d", " ", "t", "o", " ", "f", "e", "t",
         "c", "h" >>,
         << "5", "0", "0" >>,
         << "I", "n", "v", "a", "l", "i", "d", " ", "A", "P", "I", " ", "K",
         "e", "y" >> }

\* result.text of a reply of generateContent: nothing, two tags, no tag, and a
\* text that is no JSON
Replies == {"", "[\"Cat\",\"Moon\"]", "[]", "[\"Cat\""}

\* JSON.parse: the value of a text, or the SyntaxError it throws
JSONParse(text) ==
  CASE text = "[\"Cat\",\"Moon\"]" ->
         [ok |-> TRUE,
          value |-> << << "C", "a", "t" >>, << "M", "o", "o", "n" >> >>]
    [] text = "[]" -> [ok |-> TRUE, value |-> << >>]
    [] OTHER -> [ok |-> FALSE, value |-> << >>]

SyntaxError ==
  << "U", "n", "e", "x", "p", "e", "c", "t", "e", "d", " ", "e", "n", "d" >>

\* geminiService.ts line 8: the first key that is set
ApiKeyEnvFirst(c) ==
  IF c.env # "" THEN c.env
  ELSE IF c.user # "" THEN c.user
       ELSE c.fallback
ApiKey(c) ==
  IF c.user # "" THEN c.user
  ELSE IF c.env # "" THEN c.env
       ELSE c.fallback

\* what analyzeImage settles with
Returned(tags) == [rejected |-> FALSE, message |-> << >>, tags |-> tags]
Thrown(msg) == [rejected |-> TRUE, message |-> msg, tags |-> << >>]

\* geminiService.ts lines 62-67
IsAuthMessageNever(msg) == FALSE
IsAuthMessage(msg) == \E p \in AuthPatterns : includes(msg, p)

\* geminiService.ts lines 54-72: the catch block, for an error of that message
Caught(msg) ==
  IF msg = AUTH_ERROR THEN Thrown(msg)
  ELSE IF IsAuthMessage(msg) THEN Thrown(AUTH_ERROR)
       ELSE Returned(AnalysisFailed)

\* geminiService.ts lines 50-53, for a reply of that text
EmptyReply(text) == Returned(<< >>)

Replied(text) ==
  IF text # ""
  THEN IF JSONParse(text).ok THEN Returned(JSONParse(text).value)
       ELSE Caught(SyntaxError)
  ELSE EmptyReply(text)

\* prev.map(img => img.id === id ? { ...img, analyzing: b } : img)
Analyzing(imgs, id, b) ==
  [ i \in 1 .. Len(imgs) |->
      IF imgs[i].id = id THEN [imgs[i] EXCEPT !.analyzing = b] ELSE imgs[i] ]

\* App.tsx line 170
TaggedFromStale(imgs, id, tags) ==
  [ i \in 1 .. Len(imgs) |->
      IF imgs[i].id = id
      THEN [imgs[i] EXCEPT !.aiTags = << tags >>, !.analyzing = FALSE,
                           !.fileSize = << >>, !.sizeBytes = << >>,
                           !.dimensions = ""]
      ELSE imgs[i] ]
Tagged(imgs, id, tags) ==
  [ i \in 1 .. Len(imgs) |->
      IF imgs[i].id = id
      THEN [imgs[i] EXCEPT !.aiTags = << tags >>, !.analyzing = FALSE]
      ELSE imgs[i] ]

\* App.tsx line 174
ModalAfterKept(out) == showApiKeyModal
ModalAfter(out) ==
  IF out.rejected /\ out.message = AUTH_ERROR THEN TRUE ELSE showApiKeyModal

\* App.tsx lines 170-178: handleAnalyze after its await, for the call a of
\* analyzeImage that settled with out
Settled(a, out) ==
  /\ images' = IF out.rejected THEN Analyzing(images, a.id, FALSE)
               ELSE Tagged(images, a.id, out.tags)
  /\ showApiKeyModal' = ModalAfter(out)
  /\ analyses' = analyses \ {a}
  /\ UNCHANGED << status, error, pendingLoads, selectedIds, searchQuery,
                  creds, probes, parseVars >>
  /\ UNCHANGED exportVars

\* App.tsx lines 71-73: the test of the filter
MatchesCaseSensitive(img, q) ==
  \/ includes(Chars(img.filename), q)
  \/ /\ img.aiTags # << >>
     /\ \E k \in 1 .. Len(img.aiTags[1]) : includes(img.aiTags[1][k], q)
Matches(img, q) ==
  \/ includes(toLowerCase(Chars(img.filename)), toLowerCase(q))
  \/ /\ img.aiTags # << >>
     /\ \E k \in 1 .. Len(img.aiTags[1]) :
          includes(toLowerCase(img.aiTags[1][k]), toLowerCase(q))

\* App.tsx lines 70-75
filteredImages ==
  LET Test(img) == Matches(img, searchQuery)
  IN SelectSeq(images, Test)

\* what the user types into the search input
Queries ==
  { << >>, << "P", "N", "G" >>, << "c", "a", "t" >>, << "b", "." >> }

\* App.tsx line 254: onChange of the search input
setSearchQuery(q) ==
  /\ searchQuery' = q
  /\ last' = Event("setSearchQuery", None)
  /\ UNCHANGED << images, status, error, pendingLoads, selectedIds, tagVars,
                  probes, parseVars >>
  /\ UNCHANGED exportVars

\* App.tsx lines 321-323 and 419-438: a card of the filtered view of a READY
\* gallery offers the AI Analyze button for id.  The button is there while
\* the asset has no tags, enabled while it is not analyzing and no export is
\* active.
AnalyzeOfferedWithTags(id) ==
  /\ status = "READY"
  /\ ~isBulkDownloading
  /\ \E i \in 1 .. Len(images) :
        /\ images[i].id = id
        /\ ~images[i].analyzing
        /\ Matches(images[i], searchQuery)
AnalyzeOffered(id) ==
  /\ status = "READY"
  /\ ~isBulkDownloading
  /\ \E i \in 1 .. Len(images) :
        /\ images[i].id = id
        /\ images[i].aiTags = << >>
        /\ ~images[i].analyzing
        /\ Matches(images[i], searchQuery)

\* App.tsx lines 164-169 and geminiService.ts lines 5-17: the click on the AI
\* Analyze button of a card, up to the first await that leaves the event loop.
\* Without a key analyzeImage throws before any request and the catch block
\* of handleAnalyze runs in the same turn.  At most cap calls of analyzeImage
\* await the network at once.
handleAnalyzeWithin(id, cap) ==
  /\ AnalyzeOffered(id)
  /\ Cardinality(analyses) < cap
  /\ LET target == images[CHOOSE i \in 1 .. Len(images) :
                            /\ images[i].id = id
                            /\ \A j \in 1 .. i - 1 : images[j].id # id]
         apiKey == ApiKey(creds)
         slot == CHOOSE n \in 1 .. cap :
                   /\ \A a \in analyses : a.slot # n
                   /\ \A m \in 1 .. n - 1 : \E a \in analyses : a.slot = m
     IN IF apiKey = ""
        THEN /\ images' = Analyzing(Analyzing(images, id, TRUE), id, FALSE)
             /\ showApiKeyModal' = ModalAfter(Thrown(AUTH_ERROR))
             /\ analyses' = analyses
        ELSE /\ images' = Analyzing(images, id, TRUE)
             /\ showApiKeyModal' = showApiKeyModal
             /\ analyses' = analyses \cup
                  { [slot |-> slot, id |-> id, url |-> target.url,
                     apiKey |-> apiKey, pc |-> "image"] }
  /\ last' = Event("handleAnalyze", id)
  /\ UNCHANGED << status, error, pendingLoads, selectedIds, searchQuery,
                  creds, probes, parseVars >>
  /\ UNCHANGED exportVars

handleAnalyze(id) == handleAnalyzeWithin(id, MaxAnalyses)

\* geminiService.ts lines 17-26 done: line 28 sends the request
imageOk(a) ==
  /\ a.pc = "image"
  /\ analyses' = (analyses \ {a}) \cup { [a EXCEPT !.pc = "generate"] }
  /\ last' = Event("imageOk", a.id)
  /\ UNCHANGED << images, status, error, pendingLoads, selectedIds,
                  searchQuery, showApiKeyModal, creds, probes, parseVars >>
  /\ UNCHANGED exportVars

\* geminiService.ts lines 17-18: fetch or response.blob rejected
imageRejected(a, msg) ==
  /\ a.pc = "image"
  /\ Settled(a, Caught(msg))
  /\ last' = Event("imageRejected", a.id)

\* geminiService.ts line 28 resolved with a reply of that text
generateOk(a, text) ==
  /\ a.pc = "generate"
  /\ Settled(a, Replied(text))
  /\ last' = Event("generateOk", a.id)

\* geminiService.ts line 28 rejected
generateRejected(a, msg) ==
  /\ a.pc = "generate"
  /\ Settled(a, Caught(msg))
  /\ last' = Event("generateRejected", a.id)

\* App.tsx lines 523 and 554, and line 187 after the key dialog
closeApiKeyModal ==
  /\ showApiKeyModal
  /\ showApiKeyModal' = FALSE
  /\ last' = Event("closeApiKeyModal", None)
  /\ UNCHANGED << images, status, error, pendingLoads, selectedIds,
                  searchQuery, analyses, creds, probes, parseVars >>
  /\ UNCHANGED exportVars

\* the continuations of the awaits of analyzeImage
AnalysisStep ==
  \E a \in analyses :
    \/ imageOk(a)
    \/ \E msg \in Messages : imageRejected(a, msg)
    \/ \E text \in Replies : generateOk(a, text)
    \/ \E msg \in Messages : generateRejected(a, msg)

\* the gallery with its filter, its selection and its tag workflow
NextFilter ==
  \/ loadImages
  \/ loadImagesFetched
  \/ \E message \in DirectoryErrors : loadImagesFailed(message)
  \/ \E id \in ImageIds(images) : toggleSelect(id)
  \/ selectAll
  \/ \E q \in Queries : setSearchQuery(q)
  \/ \E id \in ImageIds(images) : handleAnalyze(id)
  \/ AnalysisStep

FilterSpec == Init /\ [][NextFilter]_vars

\* the gallery with analyses that run side by side
NextConcurrent ==
  \/ loadImages
  \/ loadImagesFetched
  \/ \E id \in ImageIds(images) : handleAnalyzeWithin(id, MaxConcurrent)
  \/ AnalysisStep

ConcurrentSpec == Init /\ [][NextConcurrent]_vars

\* the gallery with its tag workflow, under every configuration of the keys
NextTag ==
  \/ loadImages
  \/ loadImagesFetched
  \/ \E message \in DirectoryErrors : loadImagesFailed(message)
  \/ \E id \in ImageIds(images) : handleAnalyze(id)
  \/ AnalysisStep
  \/ closeApiKeyModal

TagInit ==
  /\ CoreInit
  /\ creds \in Credentials
  /\ links = << >>

TagSpec == TagInit /\ [][NextTag]_vars

\* -------------------------------------------------------------- enrichment
Digits == << "0", "1", "2", "3", "4", "5", "6", "7", "8", "9" >>

IsDigit(c) == \E d \in 1 .. Len(Digits) : Digits[d] = c

\* parseInt(size, 10) of a text that starts with a digit: the number written
\* by its leading digits, acc the number read so far
RECURSIVE ParseDigits(_, _)
ParseDigits(s, acc) ==
  IF s = << >> \/ ~IsDigit(Head(s)) THEN acc
  ELSE ParseDigits(Tail(s),
         10 * acc + (CHOOSE d \in 1 .. Len(Digits) : Digits[d] = Head(s)) - 1)

parseInt(s) == ParseDigits(s, 0)

\* a formatted size: `${whole} B`, `${whole}.${tenth} KB`, 'Unknown', ''
Unknown == [unit |-> "Unknown", whole |-> 0, tenth |-> << >>]
Absent == [unit |-> "", whole |-> 0, tenth |-> << >>]
InBytes(bytes) == [unit |-> "B", whole |-> bytes, tenth |-> << >>]

\* `${(bytes / den).toFixed(1)} ${unit}`: the nearest tenth, the larger of two
\* that are as near
toFixedDown(bytes, den, unit) ==
  [unit |-> unit, whole |-> bytes \div den,
   tenth |-> << ((10 * bytes) \div den) % 10 >>]
toFixed(bytes, den, unit) ==
  LET tenths == (20 * bytes + den) \div (2 * den)
  IN [unit |-> unit, whole |-> tenths \div 10, tenth |-> << tenths % 10 >>]

\* responses to the HEAD request of getFileSize: a rejection, no
\* content-length header, and headers of 512 and of 1048064 bytes
Heads ==
  { [ok |-> FALSE, length |-> << >>],
    [ok |-> TRUE, length |-> << >>],
    [ok |-> TRUE, length |-> << << "5", "1", "2" >> >>],
    [ok |-> TRUE, length |-> << << "1", "0", "4", "8", "0", "6", "4" >> >>] }

\* types.ts lines 69-85, for the response head
getFileSizeNoCatch(head) ==
  IF ~head.ok THEN [formatted |-> Absent, bytes |-> 0]
  ELSE IF head.length = << >> \/ head.length = << << >> >>
       THEN [formatted |-> Unknown, bytes |-> 0]
       ELSE [formatted |-> InBytes(parseInt(head.length[1])),
             bytes |-> parseInt(head.length[1])]
getFileSize(head) ==
  IF ~head.ok \/ head.length = << >> \/ head.length = << << >> >>
  THEN [formatted |-> Unknown, bytes |-> 0]
  ELSE LET bytes == parseInt(head.length[1])
       IN [formatted |->
             IF bytes < 1024 THEN InBytes(bytes)
             ELSE IF bytes < 1024 * 1024 THEN toFixed(bytes, 1024, "KB")
                  ELSE toFixed(bytes, 1024 * 1024, "MB"),
           bytes |-> bytes]

\* what a lookup that has not settled has to write
NoSizeData == [formatted |-> Absent, bytes |-> 0]

\* App.tsx lines 57-59: the write-back of a size lookup
Sized(imgs, id, sizeData) ==
  [ i \in 1 .. Len(imgs) |->
      IF imgs[i].id = id
      THEN [imgs[i] EXCEPT !.fileSize = << sizeData.formatted >>,
                           !.sizeBytes = << sizeData.bytes >>]
      ELSE imgs[i] ]

\* App.tsx line 80: the assets that count for the total
CountedAll(img) == img.sizeBytes # << >> /\ img.sizeBytes[1] # 0
Counted(img) ==
  img.id \in selectedIds /\ img.sizeBytes # << >> /\ img.sizeBytes[1] # 0

\* App.tsx lines 78-83: total after the first n assets
RECURSIVE Total(_)
Total(n) ==
  IF n = 0 THEN 0
  ELSE Total(n - 1) + (IF Counted(images[n]) THEN images[n].sizeBytes[1]
                       ELSE 0)

\* App.tsx lines 77-88
totalSelectedSize ==
  LET total == Total(Len(images))
  IN IF total = 0 THEN Absent
     ELSE IF total < 1024 THEN InBytes(total)
          ELSE IF total < 1024 * 1024 THEN toFixed(total, 1024, "KB")
               ELSE toFixed(total, 1024 * 1024, "MB")

\* App.tsx lines 50-59: fetchIPFSImages resolved; the collection is replaced
\* and a size lookup is started for every asset of it.  The lookups of
\* earlier collections that are still outstanding grow older; the finished
\* ones of the collection that is replaced are forgotten.
loadImagesEnriching ==
  /\ pendingLoads > 0
  /\ \A p \in probes : ~p.done => p.age + 1 < MaxProbeGens
  /\ \E ids \in [1 .. Len(Listing) -> Ids] :
       /\ images' = Fetched(ids)
       /\ probes' =
            { [p EXCEPT !.age = p.age + 1] : p \in { q \in probes : ~q.done } }
            \cup { [k |-> k, id |-> ids[k], age |-> 0, done |-> FALSE,
                    sizeData |-> NoSizeData] : k \in 1 .. Len(Listing) }
  /\ status' = "READY"
  /\ pendingLoads' = pendingLoads - 1
  /\ last' = Event("loadImagesFetched", None)
  /\ UNCHANGED << error, selectedIds, searchQuery, tagVars, parseVars >>
  /\ UNCHANGED exportVars

\* App.tsx lines 56-59: getFileSize resolved for the lookup p, whose HEAD
\* request got the response head; a finished lookup of the current collection
\* is remembered with what it wrote
getFileSizeSettled(p, head) ==
  /\ ~p.done
  /\ images' = Sized(images, p.id, getFileSize(head))
  /\ probes' = IF p.age = 0
               THEN (probes \ {p}) \cup
                      { [p EXCEPT !.done = TRUE,
                                  !.sizeData = getFileSize(head)] }
               ELSE probes \ {p}
  /\ last' = Event("getFileSizeSettled", p.id)
  /\ UNCHANGED << status, error, pendingLoads, selectedIds, searchQuery,
                  tagVars, parseVars >>
  /\ UNCHANGED exportVars

\* the content-length header of a body of n bytes: n in decimal digits
RECURSIVE Decimal(_)
Decimal(n) ==
  IF n < 10 THEN << Digits[n + 1] >>
  ELSE Append(Decimal(n \div 10), Digits[(n % 10) + 1])

\* sizes of bodies: at and around the thresholds of 1024 and 1024 * 1024
\* bytes, halfway between two tenths, and in between
ByteCounts ==
  { 0, 1, 1023, 1024, 1280, 2000, 1048575, 1048576, 1100000, 1572864,
    5242880 }

\* the responses to the HEAD request that carry a content-length header
ByteHeads == { [ok |-> TRUE, length |-> << Decimal(b) >>] : b \in ByteCounts }

\* the gallery after its first discovery, the size lookups outstanding
FormatInit ==
  /\ \E ids \in [1 .. Len(Listing) -> Ids] :
       /\ images = Fetched(ids)
       /\ probes = { [k |-> k, id |-> ids[k], age |-> 0, done |-> FALSE,
                      sizeData |-> NoSizeData] : k \in 1 .. Len(Listing) }
  /\ status = "READY"
  /\ error = "null"
  /\ selectedIds = {}
  /\ isBulkDownloading = FALSE
  /\ downloadProgress = Progress(0, 0)
  /\ processingId = None
  /\ pendingLoads = 0
  /\ job = IdleJob
  /\ inFlight = {}
  /\ last = Event("loadImagesFetched", None)
  /\ callSelection = {}
  /\ callAssets = << >>
  /\ retrieved = << >>
  /\ reports = << >>
  /\ searchQuery = << >>
  /\ showApiKeyModal = FALSE
  /\ analyses = {}
  /\ creds = BuildCreds
  /\ links = << >>
  /\ parsed = << >>

\* getFileSize for bodies of the sizes of ByteCounts
NextFormat ==
  \E p \in probes : \E head \in ByteHeads : getFileSizeSettled(p, head)

FormatSpec == FormatInit /\ [][NextFormat]_vars

\* the gallery after its first discovery with the three writers of the
\* collection: the size lookups, the decode events and the analyses
NextWriters ==
  \/ \E p \in probes : \E head \in Heads : getFileSizeSettled(p, head)
  \/ \E id \in ImageIds(images) : handleImageLoad(id)
  \/ \E id \in ImageIds(images) : handleAnalyze(id)
  \/ AnalysisStep

WritersSpec == FormatInit /\ [][NextWriters]_vars

\* the gallery with its discoveries and its size lookups
NextLookup ==
  \/ loadImages
  \/ loadImagesEnriching
  \/ \E message \in DirectoryErrors : loadImagesFailed(message)
  \/ \E p \in probes : \E head \in Heads : getFileSizeSettled(p, head)

LookupSpec == Init /\ [][NextLookup]_vars

\* the gallery with its size lookups and its selection
NextEnrich ==
  \/ loadImages
  \/ loadImagesEnriching
  \/ \E message \in DirectoryErrors : loadImagesFailed(message)
  \/ \E p \in probes : \E head \in Heads : getFileSizeSettled(p, head)
  \/ \E id \in ImageIds(images) : toggleSelect(id)
  \/ selectAll

EnrichSpec == Init /\ [][NextEnrich]_vars

\* --------------------------------------------------- parsing the directory
\* types.ts line 29
GATEWAY_BASE ==
  << "h", "t", "t", "p", "s", ":", "/", "/", "i", "p", "f", "s", ".", "i", "o"
  >>

\* types.ts line 42: the extensions of /\.(jpe?g|png|gif|webp)$/i
Extensions ==
  { << "j", "p", "g" >>,
    << "j", "p", "e", "g" >>,
    << "p", "n", "g" >>,
    << "g", "i", "f" >>,
    << "w", "e", "b", "p" >> }

\* the href attributes of the anchors of a document: an anchor without the
\* attribute (<< >>), and the texts /a.png, /a.png?v, /b.JPeG, /c.txt,
\* /d/a.png and http://e.gif
Hrefs ==
  { << >>,
    << << "/", "a", ".", "p", "n", "g" >> >>,
    << << "/", "a", ".", "p", "n", "g", "?", "v" >> >>,
    << << "/", "b", ".", "J", "P", "e", "G" >> >>,
    << << "/", "c", ".", "t", "x", "t" >> >>,
    << << "/", "d", "/", "a", ".", "p", "n", "g" >> >>,
    << << "h", "t", "t", "p", ":", "/", "/", "e", ".", "g", "i", "f" >> >> }

\* the documents of at most MaxLinks anchors
LinkLists == UNION { [1 .. n -> Hrefs] : n \in 0 .. MaxLinks }

\* String.prototype.toUpperCase
toUpperCase(s) ==
  [ i \in 1 .. Len(s) |->
      IF \E k \in 1 .. Len(Lower) : Lower[k] = s[i]
      THEN Upper[CHOOSE k \in 1 .. Len(Lower) : Lower[k] = s[i]]
      ELSE s[i] ]

\* types.ts line 47: split("?")[0], the text before the first "?"
RECURSIVE BeforeQuery(_)
BeforeQueryKept(h) == h
BeforeQuery(h) ==
  IF h = << >> \/ Head(h) = "?" THEN << >>
  ELSE << Head(h) >> \o BeforeQuery(Tail(h))

\* split(sep).pop(): the text after the last sep, the whole text without one
RECURSIVE AfterLast(_, _)
AfterLast(s, sep) ==
  IF \E i \in 1 .. Len(s) : s[i] = sep THEN AfterLast(Tail(s), sep) ELSE s

\* types.ts lines 42 and 48: imageExtensions.test(href)
IsImage(href) ==
  \E e \in Extensions :
    /\ Len(href) > Len(e)
    /\ href[Len(href) - Len(e)] = "."
    /\ toLowerCase(SubSeq(href, Len(href) - Len(e) + 1, Len(href))) = e

\* href.startsWith('http')
StartsWithHttp(href) ==
  Len(href) >= 4 /\ SubSeq(href, 1, 4) = << "h", "t", "t", "p" >>

\* types.ts lines 49-58: the asset of the href, with the id generated for it
IPFSImage(href, id) ==
  LET filename == IF AfterLast(href, "/") = << >>
                  THEN << "i", "m", "a", "g", "e" >>
                  ELSE AfterLast(href, "/")
  IN [id |-> id,
      url |-> IF StartsWithHttp(href) THEN href ELSE GATEWAY_BASE \o href,
      filename |-> filename,
      type |-> IF AfterLast(filename, ".") = << >> THEN << "I", "M", "G" >>
               ELSE toUpperCase(AfterLast(filename, "."))]

\* types.ts lines 43-60: images and added after the first n links of ls;
\* ids[k] is the id generated for the k-th asset
RECURSIVE Scan(_, _, _)
Scan(ls, ids, n) ==
  IF n = 0 THEN [images |-> << >>, added |-> {}]
  ELSE LET prev == Scan(ls, ids, n - 1)
           href == IF ls[n] = << >> THEN << >> ELSE BeforeQuery(ls[n][1])
       IN IF href # << >> /\ IsImage(href) /\ href \notin prev.added
          THEN [images |-> Append(prev.images,
                             IPFSImage(href, ids[Len(prev.images) + 1])),
                added |-> prev.added \cup {href}]
          ELSE prev

\* types.ts lines 40-62
fetchIPFSImages(ls, ids) == Scan(ls, ids, Len(ls)).images

\* the document of links has been fetched and is parsed; an id is generated
\* for each of the n assets it yields
documentParsed ==
  /\ last.op = "mount"
  /\ LET n == Len(fetchIPFSImages(links, [k \in 1 .. Len(links) |-> None]))
     IN \E ids \in [1 .. n -> Ids] : parsed' = fetchIPFSImages(links, ids)
  /\ last' = Event("fetchIPFSImages", None)
  /\ UNCHANGED << images, status, error, pendingLoads, selectedIds,
                  searchQuery, tagVars, probes, links >>
  /\ UNCHANGED exportVars

\* fetchIPFSImages on every document of at most MaxLinks anchors
DiscoverInit ==
  /\ CoreInit
  /\ creds = BuildCreds
  /\ links \in LinkLists

DiscoverSpec == DiscoverInit /\ [][documentParsed]_vars

\* ------------------------------------------------------------------ claims
IsPrefix(s, t) == Len(s) <= Len(t) /\ s = SubSeq(t, 1, Len(s))

UniqueIds(imgs) ==
  \A i, j \in 1 .. Len(imgs) : imgs[i].id = imgs[j].id => i = j

\* the selection at the call named exactly the assets of the snapshot, one each
CleanCall ==
  /\ UniqueIds(callAssets)
  /\ Len(callAssets) = Cardinality(callSelection)

\* the export's retrieval loop is at an item: its fetch, its body or its delay
InLoop == job.pc \in {"fetch", "blob", "delay"}

\* C1: a call of handleBulkDownload while an export is active changes nothing:
\* not the selection, the progress, the processing marker, the active flag,
\* the running job or its outstanding retrievals, nor the gallery.
C1_SecondExportIsNoOp ==
  [][ (isBulkDownloading /\ last'.op = "handleBulkDownload")
        => /\ UNCHANGED << selectedIds, galleryVars, exportVars >>
           /\ last'.alert = << >>
           /\ last'.archive = << >> ]_vars

\* handleBulkDownload was called while the running export was past its first
\* fetch
C1_Witness ==
  /\ last.op = "handleBulkDownload"
  /\ isBulkDownloading
  /\ job.pc \in {"blob", "delay"}
  /\ job.count = 1

\* C2: at most one retrieval is outstanding, it is that of the item started
\* last, and the items started so far are the first items of the snapshot in
\* snapshot order: item n+1 is not started while item n is outstanding.
C2_SequentialRetrieval ==
  /\ Cardinality(inFlight) <= 1
  /\ inFlight \subseteq {Len(retrieved)}
  /\ IsPrefix(retrieved, job.selectedImages)
  /\ InLoop => Len(retrieved) = job.count + 1
  /\ job.pc \in {"fetch", "blob"} <=> inFlight # {}

\* the second item of a snapshot of two is being retrieved
C2_Witness ==
  /\ job.pc = "fetch"
  /\ job.count = 1
  /\ inFlight = {2}
  /\ Len(retrieved) = 2

\* C3 as stated: while an export is active the processing marker is set and
\* identifies exactly one asset of the snapshot.  Stated for the exports whose
\* selection named exactly the assets of the snapshot, each by an id of its
\* own, so that what refutes it is the export itself.
C3_Original ==
  (isBulkDownloading /\ CleanCall) =>
    /\ processingId # None
    /\ Cardinality({ i \in 1 .. Len(job.selectedImages) :
                       job.selectedImages[i].id = processingId }) = 1

\* C3 amended: while the retrieval loop of an active export is at an item, the
\* processing marker is set to that item's id; once the loop is over and the
\* archive is being finalized, the export is still active and the marker is
\* empty; with no export active the marker is empty.
C3_MarkerFollowsLoop ==
  /\ InLoop => /\ isBulkDownloading
               /\ processingId # None
               /\ processingId = job.img.id
               /\ job.img = job.selectedImages[job.count + 1]
  /\ job.pc = "zip" => isBulkDownloading /\ processingId = None
  /\ job.pc = "idle" => ~isBulkDownloading /\ processingId = None

\* the export is finalizing the archive of two retrieved assets, marker empty
C3_Witness ==
  /\ isBulkDownloading
  /\ job.pc = "zip"
  /\ Len(retrieved) = 2
  /\ processingId = None

\* C4: when every retrieval of an export of k assets has succeeded, the
\* progress values it committed are (1,k), (2,k), ..., (k,k), in that order.
\* Stated for snapshots of at least one asset whose assets have ids of their
\* own.
C4_ProgressReports ==
  (job.pc = "zip" /\ callAssets # << >> /\ UniqueIds(callAssets)) =>
    reports = [ i \in 1 .. Len(callAssets) |-> Progress(i, Len(callAssets)) ]

\* C5: the step at which a retrieval fails ends the export: the failed asset
\* is the one started last, nothing after it was started or is outstanding,
\* no archive is offered, and the selection is the one of the call.  An
\* archive is offered only by the step that follows the finalization, after
\* every asset of the snapshot was retrieved.
C5_AbortOnFailure ==
  [][ /\ (isBulkDownloading /\ last'.failed # NoImage)
          => /\ ~isBulkDownloading'
             /\ job'.pc = "idle"
             /\ inFlight' = {}
             /\ retrieved # << >>
             /\ last'.failed = retrieved[Len(retrieved)]
             /\ IsPrefix(retrieved, callAssets)
             /\ last'.archive = << >>
             /\ selectedIds' = callSelection
      /\ last'.archive # << >>
          => /\ job.pc = "zip"
             /\ retrieved = callAssets ]_vars

\* the first of two selected assets failed and both are still selected
C5_Witness ==
  /\ ~isBulkDownloading
  /\ images # << >>
  /\ last.failed = images[1]
  /\ UniqueIds(images)
  /\ selectedIds = ImageIds(images)

\* C6: the alert of an export that failed at a retrieval carries the
\* displayName of the asset whose retrieval failed.  Stated for collections
\* whose assets have ids of their own.
C6_ErrorNamesAsset ==
  (last.failed # NoImage /\ UniqueIds(images)) =>
    /\ Len(last.alert) = 1
    /\ last.alert[1].name = last.failed.filename

\* C7: the step that offers the archive leaves the selection empty, the marker
\* empty and no export active; a step of an active export that changes the
\* selection is that step.
C7_SelectionClearedOnSuccessOnly ==
  [][ /\ (isBulkDownloading /\ last'.archive # << >>)
          => /\ selectedIds' = {}
             /\ processingId' = None
             /\ ~isBulkDownloading'
      /\ (isBulkDownloading /\ selectedIds' # selectedIds)
          => /\ last'.op = "zipOk"
             /\ last'.archive = << job.zip >>
             /\ retrieved = callAssets ]_vars

\* an archive of two entries was offered and the selection is empty
C7_Witness ==
  /\ last.op = "zipOk"
  /\ Len(last.archive) = 1
  /\ Len(last.archive[1]) = 2
  /\ selectedIds = {}
  /\ processingId = None
  /\ ~isBulkDownloading

\* C8: when every await of the export resolves, an active export ends; and
\* whenever no export is active the marker is empty, the progress is (0,0) and
\* no retrieval is outstanding.
C8_ExportEndsAndResets ==
  /\ [](~isBulkDownloading =>
          /\ processingId = None
          /\ downloadProgress = Progress(0, 0)
          /\ job.pc = "idle"
          /\ inFlight = {})
  /\ (isBulkDownloading ~> ~isBulkDownloading)

\* an export has ended by the failure of the retrieval of b.jpg
C8_Witness ==
  /\ ~isBulkDownloading
  /\ last.op \in {"fetchNotOk", "fetchRejected", "blobRejected"}
  /\ last.failed.filename = "b.jpg"
  /\ downloadProgress = Progress(0, 0)

Flip(sel, id) == IF id \in sel THEN sel \ {id} ELSE sel \cup {id}

\* C10: toggleSelect(id) changes nothing while an export is active; otherwise
\* it flips the membership of id and leaves every other membership, the
\* gallery and the export state alone.
C10_ToggleGuarded ==
  [][ last'.op = "toggleSelect"
        => /\ selectedIds' = IF isBulkDownloading THEN selectedIds
                             ELSE Flip(selectedIds, last'.arg)
           /\ UNCHANGED << galleryVars, exportVars >> ]_vars

\* toggleSelect was called on a selected asset while an export was at an item
C10_Witness ==
  /\ last.op = "toggleSelect"
  /\ isBulkDownloading
  /\ InLoop
  /\ last.arg \in selectedIds

\* C11: with no export active, selectAll deselects everything when every
\* asset of the collection is selected and selects every asset of the
\* collection otherwise, whether none or some of them are selected.  Stated
\* for non-empty collections whose assets have ids of their own.
C11_SelectAllToggles ==
  [][ (last'.op = "selectAll" /\ ~isBulkDownloading /\ images # << >>
         /\ UniqueIds(images))
        => selectedIds' = IF ImageIds(images) \subseteq selectedIds THEN {}
                          ELSE ImageIds(images) ]_vars

\* two characters that are the same up to the case of a letter
SameLetter(c, d) ==
  c = d \/ \E n \in 1 .. Len(Upper) : {c, d} = {Upper[n], Lower[n]}

\* q occurs in text at some position, up to the case of the letters
ContainsIgnoringCase(text, q) ==
  \E k \in 0 .. Len(text) - Len(q) :
    \A j \in 1 .. Len(q) : SameLetter(text[k + j], q[j])

Visible(img) ==
  \/ ContainsIgnoringCase(Chars(img.filename), searchQuery)
  \/ \E t \in 1 .. Len(img.aiTags) : \E k \in 1 .. Len(img.aiTags[t]) :
       ContainsIgnoringCase(img.aiTags[t][k], searchQuery)

\* the visible assets among the first n of the collection, in its order
RECURSIVE VisibleImages(_)
VisibleImages(n) ==
  IF n = 0 THEN << >>
  ELSE VisibleImages(n - 1) \o
         (IF Visible(images[n]) THEN << images[n] >> ELSE << >>)

\* C12: a change of the filter text leaves the selection, the collection and
\* the export state as they were; the filtered view is, in collection order,
\* the assets whose file name or one of whose tags contains the filter text up
\* to the case of the letters, and the whole collection for the empty text.
C12_FilterKeepsSelection ==
  /\ [][ last'.op = "setSearchQuery"
           => UNCHANGED << selectedIds, images, exportVars >> ]_vars
  /\ [](filteredImages = VisibleImages(Len(images)))
  /\ [](searchQuery = << >> => filteredImages = images)

\* the filter was changed to a text that hides a selected asset and shows,
\* by a tag that differs from it in case, an asset that is not selected
C12_Witness ==
  /\ last.op = "setSearchQuery"
  /\ searchQuery = << "c", "a", "t" >>
  /\ Len(filteredImages) = 1
  /\ filteredImages[1].id \notin selectedIds
  /\ \E i \in 1 .. Len(images) :
       images[i].id \in selectedIds /\ ~Visible(images[i])

\* the bytes of the assets at the indices of S, an unknown size counting 0
RECURSIVE SumOver(_)
SumOver(S) ==
  IF S = {} THEN 0
  ELSE LET i == CHOOSE i \in S : TRUE
       IN (IF images[i].sizeBytes = << >> THEN 0 ELSE images[i].sizeBytes[1])
          + SumOver(S \ {i})

\* the formatted size text says n bytes: n itself below 1024, else the tenth
\* of a KB (below 1024 KB) or of a MB that is nearest to n
Denotes(text, n) ==
  LET shown == 10 * text.whole + (IF text.tenth = << >> THEN 0
                                  ELSE text.tenth[1])
  IN CASE text.unit = "B" -> n < 1024 /\ text.whole = n /\ text.tenth = << >>
       [] text.unit = "KB" ->
            /\ 1024 <= n /\ n < 1024 * 1024 /\ text.tenth # << >>
            /\ text.tenth[1] \in 0 .. 9
            /\ 2 * (shown * 1024 - 10 * n) \in -1023 .. 1024
       [] text.unit = "MB" ->
            /\ 1024 * 1024 <= n /\ text.tenth # << >>
            /\ text.tenth[1] \in 0 .. 9
            /\ 2 * (shown * 1024 * 1024 - 10 * n)
                 \in 1 - 1024 * 1024 .. 1024 * 1024
       [] OTHER -> FALSE

\* C13: the aggregate selected size says the sum of sizeBytes over the assets
\* whose id is selected, an asset of unknown size counting 0, and it is the
\* empty text exactly when that sum is zero.
C13_AggregateSize ==
  LET sum == SumOver({ i \in 1 .. Len(images) : images[i].id \in selectedIds })
  IN /\ totalSelectedSize = Absent <=> sum = 0
     /\ sum # 0 => Denotes(totalSelectedSize, sum)

\* both assets are selected, of 512 and 1048064 bytes: the aggregate is 1.0 MB
C13_Witness ==
  /\ Len(images) = 2
  /\ UniqueIds(images)
  /\ selectedIds = ImageIds(images)
  /\ images[1].sizeBytes = << 512 >>
  /\ images[2].sizeBytes = << 1048064 >>
  /\ totalSelectedSize = [unit |-> "MB", whole |-> 1, tenth |-> << 0 >>]

\* the size lookup of the asset at index k of the current collection
ProbeOf(k) == CHOOSE p \in probes : p.age = 0 /\ p.k = k

\* every size lookup of the current collection has settled
AllSized ==
  /\ images # << >>
  /\ \A k \in 1 .. Len(images) :
       \E p \in probes : p.age = 0 /\ p.k = k /\ p.done

\* the collection after the write-backs of the first n lookups of the current
\* collection, applied in discovery order
RECURSIVE InOrder(_)
InOrder(n) ==
  IF n = 0 THEN images
  ELSE Sized(InOrder(n - 1), ProbeOf(n).id, ProbeOf(n).sizeData)

\* C14: once the size lookups of a collection have all settled, in whatever
\* order and whatever else wrote to the collection meanwhile, every asset has
\* the formatted size and the bytes that it has after the write-backs of the
\* same lookups applied in discovery order.
C14_OrderIndependent ==
  AllSized =>
    \A i \in 1 .. Len(images) :
      /\ images[i].fileSize = InOrder(Len(images))[i].fileSize
      /\ images[i].sizeBytes = InOrder(Len(images))[i].sizeBytes

\* the last step settled the analysis of the assets of id last.arg: a
\* continuation of analyzeImage, or the call itself when no key is set
Resolved ==
  \/ last.op \in {"imageRejected", "generateOk", "generateRejected"}
  \/ last.op = "handleAnalyze" /\ ApiKey(creds) = ""

\* the outcomes of an analysis, by the tags of the asset
IsTagged(img) ==
  img.aiTags # << >> /\ img.aiTags[1] # << >> /\ img.aiTags[1] # AnalysisFailed
IsFailed(img) == img.aiTags = << AnalysisFailed >>
IsUnanalyzed(img) == img.aiTags = << >>
IsEmptyTagged(img) == img.aiTags = << << >> >>

\* C15 as stated: after an analysis has resolved, its asset is not analyzing
\* and is TAGGED with a non-empty sequence, or UNANALYZED with the credential
\* notification raised, or FAILED with the sentinel.  Stated for collections
\* whose assets have ids of their own.
C15_Original ==
  (Resolved /\ UniqueIds(images)) =>
    \A i \in 1 .. Len(images) :
      images[i].id = last.arg =>
        /\ ~images[i].analyzing
        /\ \/ IsTagged(images[i])
           \/ IsUnanalyzed(images[i]) /\ showApiKeyModal
           \/ IsFailed(images[i])

\* C15 amended: after an analysis has resolved, its asset is not analyzing
\* and is in one of four outcomes: TAGGED with a non-empty sequence,
\* UNANALYZED with the credential notification raised, FAILED with the
\* sentinel, or tagged with the empty sequence.
C15_AnalysisOutcomes ==
  Resolved =>
    \A i \in 1 .. Len(images) :
      images[i].id = last.arg =>
        /\ ~images[i].analyzing
        /\ \/ IsTagged(images[i])
           \/ IsUnanalyzed(images[i]) /\ showApiKeyModal
           \/ IsFailed(images[i])
           \/ IsEmptyTagged(images[i])

\* an analysis resolved with the empty sequence: the asset has tags, none
C15_Witness ==
  /\ last.op = "generateOk"
  /\ \E i \in 1 .. Len(images) :
       /\ images[i].id = last.arg
       /\ IsEmptyTagged(images[i])
       /\ ~images[i].analyzing

\* a failure message of the credential kind: that of the missing key, or one
\* in which a recognized authentication substring occurs at some position
IsCredentialMessage(msg) ==
  \/ msg = AUTH_ERROR
  \/ \E p \in AuthPatterns : \E k \in 0 .. Len(msg) - Len(p) :
       \A j \in 1 .. Len(p) : msg[k + j] = p[j]

\* this step is the failure, with that message, of the analysis a
FailsWith(a, msg) == imageRejected(a, msg) \/ generateRejected(a, msg)

\* this step is a click on AI Analyze for id with no key set
FailsForNoKey(id) == handleAnalyze(id) /\ ApiKey(creds) = ""

\* what a credential failure leaves of the assets of that id: the tags as
\* they were, so unset when they were unset and never the sentinel in their
\* place, analyzing cleared, and the credential notification raised
BackToUnanalyzed(id) ==
  /\ showApiKeyModal'
  /\ Len(images') = Len(images)
  /\ \A i \in 1 .. Len(images) :
       /\ images'[i].aiTags = images[i].aiTags
       /\ images[i].id = id => ~images'[i].analyzing

\* C16: a step at which an analysis fails with a credential failure (no key
\* set, or an error whose message is of the credential kind) leaves the tags
\* of the asset as they were, clears analyzing and raises the credential
\* notification; and a step that raises the notification is such a step.
C16_CredentialFailure ==
  [][ /\ \A a \in analyses : \A msg \in Messages :
           (FailsWith(a, msg) /\ IsCredentialMessage(msg))
             => BackToUnanalyzed(a.id)
      /\ \A id \in ImageIds(images) :
           FailsForNoKey(id) => BackToUnanalyzed(id)
      /\ (~showApiKeyModal /\ showApiKeyModal')
           => \/ \E a \in analyses : \E msg \in Messages :
                   FailsWith(a, msg) /\ IsCredentialMessage(msg)
              \/ \E id \in ImageIds(images) : FailsForNoKey(id) ]_vars

\* the request to the service was rejected and the credential notification is
\* up: the asset has no tags and is not analyzing
C16_Witness ==
  /\ last.op = "generateRejected"
  /\ showApiKeyModal
  /\ analyses = {}
  /\ \E i \in 1 .. Len(images) :
       /\ images[i].id = last.arg
       /\ IsUnanalyzed(images[i])
       /\ ~images[i].analyzing

\* what a failure that is not a credential failure leaves of the assets of
\* the analysis a: the sentinel as tags and analyzing cleared, the
\* notification as it was, and no call of analyzeImage in the place of a
SentinelSet(a) ==
  /\ showApiKeyModal' = showApiKeyModal
  /\ analyses' = analyses \ {a}
  /\ Len(images') = Len(images)
  /\ \A i \in 1 .. Len(images) :
       IF images[i].id = a.id
       THEN IsFailed(images'[i]) /\ ~images'[i].analyzing
       ELSE images'[i] = images[i]

\* the steps at which an analysis fails for another reason than the key: an
\* error whose message is not of the credential kind, a reply that is no JSON
GenericFailureMarks ==
  [][ /\ \A a \in analyses : \A msg \in Messages :
           (FailsWith(a, msg) /\ ~IsCredentialMessage(msg)) => SentinelSet(a)
      /\ \A a \in analyses : \A text \in Replies :
           (generateOk(a, text) /\ text # "" /\ ~JSONParse(text).ok)
             => SentinelSet(a) ]_vars

IsPreferred(key) ==
  /\ creds.user # "" => key = creds.user
  /\ (creds.user = "" /\ creds.env # "") => key = creds.env
  /\ (creds.user = "" /\ creds.env = "" /\ creds.fallback # "")
       => key = creds.fallback

NoKeySet == creds.user = "" /\ creds.env = "" /\ creds.fallback = ""

\* C18: a click on AI Analyze with no key set fails at once as a credential
\* failure, the notification raised, the asset not analyzing and no request
\* sent; with a key set it sends the request for the image with the first key
\* that is set among the user's, the environment default and the fallback.
C18_CredentialPrecedence ==
  [][ \A id \in ImageIds(images) :
        handleAnalyze(id) =>
          IF NoKeySet
          THEN /\ analyses' = analyses
               /\ showApiKeyModal'
               /\ \A i \in 1 .. Len(images') :
                    images'[i].id = id => ~images'[i].analyzing
          ELSE \E a \in analyses' \ analyses :
                 /\ analyses' = analyses \cup {a}
                 /\ a.id = id
                 /\ a.pc = "image"
                 /\ a.apiKey # ""
                 /\ IsPreferred(a.apiKey) ]_vars

\* with the three keys set, the request of a click was sent with the user's
C18_Witness ==
  /\ last.op = "handleAnalyze"
  /\ creds = [user |-> "userKey", env |-> "envKey", fallback |-> "fallbackKey"]
  /\ \E a \in analyses : a.id = last.arg /\ a.apiKey = "userKey"

\* the normalized target of the link at k: its href up to the first "?"
Normalized(k) ==
  LET h == links[k][1]
      n == CHOOSE n \in 0 .. Len(h) :
             /\ \A i \in 1 .. n : h[i] # "?"
             /\ n = Len(h) \/ h[n + 1] = "?"
  IN SubSeq(h, 1, n)

\* the text ends with a dot and an extension of the allow-list, up to case
HasImageExtension(t) ==
  \E e \in Extensions :
    /\ Len(t) > Len(e)
    /\ t[Len(t) - Len(e)] = "."
    /\ \A j \in 1 .. Len(e) : SameLetter(t[Len(t) - Len(e) + j], e[j])

\* the links that count: the first of every normalized image target
FirstOccurrences ==
  { k \in 1 .. Len(links) :
      /\ links[k] # << >>
      /\ HasImageExtension(Normalized(k))
      /\ \A j \in 1 .. k - 1 :
           links[j] = << >> \/ Normalized(j) # Normalized(k) }

\* the i-th of them in document order
Occurrence(i) ==
  CHOOSE k \in FirstOccurrences :
    Cardinality({ j \in FirstOccurrences : j < k }) = i - 1

\* C19: what discovery makes of a document is one asset for every distinct
\* normalized target with an image extension, in the order of the first
\* occurrences: the asset of the normalized target, at the gateway unless the
\* target is absolute.
C19_OnePerTarget ==
  last.op = "fetchIPFSImages" =>
    /\ Len(parsed) = Cardinality(FirstOccurrences)
    /\ \A i \in 1 .. Len(parsed) :
         \/ parsed[i].url = Normalized(Occurrence(i))
         \/ parsed[i].url = GATEWAY_BASE \o Normalized(Occurrence(i))

\* a document of /a.png?v, /c.txt and /a.png gave the one asset of /a.png
C19_Witness ==
  /\ last.op = "fetchIPFSImages"
  /\ links = << << << "/", "a", ".", "p", "n", "g", "?", "v" >> >>,
                << << "/", "c", ".", "t", "x", "t" >> >>,
                << << "/", "a", ".", "p", "n", "g" >> >> >>
  /\ Len(parsed) = 1
  /\ parsed[1].filename = << "a", ".", "p", "n", "g" >>

\* C20: no two entries of the collection have the same id, whatever ids the
\* discovery generated.
C20_IdsUnique ==
  \A i, j \in 1 .. Len(images) : i # j => images[i].id # images[j].id

\* the collection that a discovery puts in place: an asset for every link of
\* the listing, in its order, with no derived field set yet
IsDiscovered(imgs) ==
  /\ Len(imgs) = Len(Listing)
  /\ \A k \in 1 .. Len(imgs) :
       /\ imgs[k].url = Listing[k].url
       /\ imgs[k].filename = Listing[k].filename
       /\ imgs[k].id \in Ids
       /\ imgs[k].fileSize = << >>
       /\ imgs[k].aiTags = << >>

\* C21: the step at which a discovery fails sets the status ERROR and an error
\* message, leaves the collection and the selection as they were and starts no
\* size lookup; discovery can be invoked again from there, which clears the
\* error, and the step at which a discovery succeeds sets the status READY and
\* puts the discovered collection in place, with a size lookup for each asset.
C21_DiscoveryFailure ==
  [][ /\ last'.op = "loadImagesFailed"
          => /\ status' = "ERROR"
             /\ error' \notin {"null", ""}
             /\ images' = images
             /\ probes' = probes
             /\ selectedIds' = selectedIds
             /\ pendingLoads' = pendingLoads - 1
      /\ (status = "ERROR" /\ last'.op = "loadImages")
          => /\ status' = "FETCHING"
             /\ error' = "null"
             /\ pendingLoads' = pendingLoads + 1
      /\ last'.op = "loadImagesFetched"
          => /\ status' = "READY"
             /\ IsDiscovered(images')
             /\ \A k \in 1 .. Len(images') :
                  \E p \in probes' :
                    p.k = k /\ p.id = images'[k].id /\ p.age = 0 /\ ~p.done
             /\ Cardinality({ p \in probes' : ~p.done })
                  = Cardinality({ p \in probes : ~p.done }) + Len(images') ]_vars

\* a discovery failed without a message while the lookups of the collection
\* in place were outstanding: the collection and the lookups are as they were
C21_Witness ==
  /\ last.op = "loadImagesFailed"
  /\ status = "ERROR"
  /\ error = "Unknown error occurred while fetching IPFS directory"
  /\ Len(images) = 2
  /\ Cardinality({ p \in probes : ~p.done }) = 2

\* the HEAD request of a size lookup failed: it was rejected, or its response
\* has no content-length header
LookupFailed(head) == ~head.ok \/ head.length = << >>

\* C22: the step at which a size lookup settles after a rejected request or a
\* response without a content-length header writes the formatted size Unknown
\* and 0 bytes to the assets of its id and leaves every other asset, the
\* status, the error, the discoveries under way and the selection as they
\* were; every other lookup is as it was, so an outstanding one is still
\* outstanding; and with a size Unknown written, every outstanding lookup can
\* settle.
C22_ProbeNeverFails ==
  /\ [][ last'.op = "getFileSizeSettled" =>
           \A p \in { q \in probes : ~q.done /\ q.id = last'.arg } :
             \A head \in { h \in Heads : LookupFailed(h) } :
               getFileSizeSettled(p, head)
                 => /\ UNCHANGED << status, error, pendingLoads, selectedIds >>
                    /\ Len(images') = Len(images)
                    /\ \A i \in 1 .. Len(images) :
                         IF images[i].id = p.id
                         THEN /\ images'[i].fileSize = << Unknown >>
                              /\ images'[i].sizeBytes = << 0 >>
                         ELSE images'[i] = images[i]
                    /\ probes \ {p} \subseteq probes' ]_vars
  /\ []((last.op = "getFileSizeSettled"
           /\ \E i \in 1 .. Len(images) : images[i].fileSize = << Unknown >>)
          => \A p \in probes :
               ~p.done => ENABLED (\E head \in Heads :
                                    getFileSizeSettled(p, head)))

\* the lookup of a.png failed and that of b.jpg then settled with 512 bytes:
\* the gallery is READY, a.png of unknown size and b.jpg of 512 B
C22_Witness ==
  /\ last.op = "getFileSizeSettled"
  /\ status = "READY"
  /\ Len(images) = 2
  /\ UniqueIds(images)
  /\ last.arg = images[2].id
  /\ images[1].fileSize = << Unknown >>
  /\ images[1].sizeBytes = << 0 >>
  /\ images[2].fileSize = << InBytes(512) >>
  /\ images[2].sizeBytes = << 512 >>

\* C23: an asset whose size lookup read a content-length of b bytes has b as
\* its bytes and, as its formatted size, b itself with the unit B when b is
\* below 1024, the nearest tenth of b / 1024 with the unit KB when b is below
\* 1024 * 1024, and the nearest tenth of b / (1024 * 1024) with the unit MB
\* otherwise; 0 gives 0 B, 1023 gives 1023 B, 1024 gives 1.0 KB and 1048576
\* gives 1.0 MB.
C23_SizeFormat ==
  \A i \in 1 .. Len(images) :
    (images[i].fileSize # << >> /\ images[i].fileSize # << Unknown >>) =>
      LET b == images[i].sizeBytes[1]
          text == images[i].fileSize[1]
      IN /\ b \in ByteCounts
         /\ Denotes(text, b)
         /\ text.unit = (IF b < 1024 THEN "B"
                         ELSE IF b < 1024 * 1024 THEN "KB" ELSE "MB")
         /\ b = 0 => text = InBytes(0)
         /\ b = 1023 => text = InBytes(1023)
         /\ b = 1024 => text = [unit |-> "KB", whole |-> 1, tenth |-> << 0 >>]
         /\ b = 1048576
              => text = [unit |-> "MB", whole |-> 1, tenth |-> << 0 >>]

\* a.png of 2000 bytes is shown as 2.0 KB and b.jpg of 1048575 bytes as
\* 1024.0 KB
C23_Witness ==
  /\ Len(images) = 2
  /\ images[1].sizeBytes = << 2000 >>
  /\ images[1].fileSize = << [unit |-> "KB", whole |-> 2, tenth |-> << 0 >>] >>
  /\ images[2].sizeBytes = << 1048575 >>
  /\ images[2].fileSize
       = << [unit |-> "KB", whole |-> 1024, tenth |-> << 0 >>] >>

\* the writer that a step is, by the fields it owns: a size lookup that
\* settled, a decode event, or the start or the end of an analysis
WriterOf(op) ==
  CASE op = "getFileSizeSettled" -> "size"
    [] op = "handleImageLoad" -> "dimensions"
    [] op \in {"handleAnalyze", "imageRejected", "generateOk",
               "generateRejected"} -> "tags"
    [] OTHER -> "none"

\* the asset without the fields that the writer w owns
Without(img, w) ==
  CASE w = "size" -> [img EXCEPT !.fileSize = << >>, !.sizeBytes = << >>]
    [] w = "dimensions" -> [img EXCEPT !.dimensions = ""]
    [] w = "tags" -> [img EXCEPT !.aiTags = << >>, !.analyzing = FALSE]
    [] OTHER -> img

\* C24: a write-back to the collection (a size lookup that settles, the start
\* or the end of an analysis, a decode event) keeps the length and the order
\* of the collection, leaves every entry of another id identical and changes,
\* in the entries of its id, no field but the writer's own; a step that is
\* neither a write-back nor a discovery leaves the collection identical.
C24_WriteBackFrame ==
  [][ LET w == WriterOf(last'.op)
      IN IF w = "none"
         THEN last'.op # "loadImagesFetched" => images' = images
         ELSE /\ Len(images') = Len(images)
              /\ \A i \in 1 .. Len(images) :
                   IF images[i].id = last'.arg
                   THEN Without(images'[i], w) = Without(images[i], w)
                   ELSE images'[i] = images[i] ]_vars

\* the analysis of a.png ended with two tags after its size lookup and its
\* decode event had written to it: it has the three, and b.jpg has only what
\* its failed analysis wrote
C24_Witness ==
  /\ last.op = "generateOk"
  /\ Len(images) = 2
  /\ UniqueIds(images)
  /\ last.arg = images[1].id
  /\ IsTagged(images[1])
  /\ images[1].fileSize = << InBytes(512) >>
  /\ images[1].sizeBytes = << 512 >>
  /\ images[1].dimensions = "w x h"
  /\ images[2] = [Fetched(<< images[1].id, images[2].id >>)[2]
                    EXCEPT !.aiTags = << AnalysisFailed >>]

\* C25: while an export is active the total of the reported progress is the
\* length of the snapshot of the export.  Stated for snapshots whose assets
\* have ids of their own.
C25_TotalIsSnapshotLength ==
  (isBulkDownloading /\ UniqueIds(job.selectedImages)) =>
    /\ downloadProgress.total = Len(job.selectedImages)
    /\ job.total = Len(job.selectedImages)

\* C26: no two calls of analyzeImage that are in flight are for the same
\* asset id, whatever the interleaving of clicks, completions and discoveries.
C26_SingleFlightPerAsset ==
  \A a, b \in analyses : a.id = b.id => a = b

\* C27: every id of the selection is the id of an asset of the collection, so
\* the selection has as many ids as the collection has assets exactly when
\* every asset is selected.  Stated for collections whose assets have ids of
\* their own.
C27_SelectionWithinCollection ==
  UniqueIds(images) =>
    /\ selectedIds \subseteq ImageIds(images)
    /\ Cardinality(selectedIds) = Len(images)
         <=> selectedIds = ImageIds(images)

\* C28: the archive that an export offers has as many entries as the snapshot
\* has assets and, for every asset of the snapshot, an entry of the asset's
\* file name with the asset's bytes.  Stated for snapshots whose assets have
\* ids of their own.
C28_ArchiveComplete ==
  [][ (last'.archive # << >> /\ UniqueIds(callAssets))
        => LET zip == last'.archive[1]
           IN /\ Len(zip) = Len(callAssets)
              /\ \A i \in 1 .. Len(callAssets) :
                   \E e \in 1 .. Len(zip) :
                     /\ zip[e].name = callAssets[i].filename
                     /\ zip[e].data = BlobOf(callAssets[i].url) ]_vars

====
